---- MODULE Spec2Model ----
(***************************************************************************)
(* Model of translation-worker/src/worker.py: one run of                   *)
(* process_pdf_translation(job_data), split at its external calls (HTTP    *)
(* fetch, file write, PyPDF2 extraction, pdf2image rasterization, Gemini   *)
(* translation, rq job-state store).                                       *)
(*                                                                         *)
(* Texts are sequences of one-character strings; " " and "\n" are the      *)
(* whitespace characters.  Composite strings (f-strings) are tuples of     *)
(* their literal parts and interpolated values.                            *)
(***************************************************************************)
EXTENDS Integers, Sequences, FiniteSets, TLC

VARIABLES
    job,             \* job_data, the record handed to the run
    pc,              \* position of the run inside process_pdf_translation
    model_name,      \* local model_name (line 127)
    temp_dir,        \* TRUE while the TemporaryDirectory exists
    response,        \* the HTTP response: status code and body
    pdf_file,        \* content of the file at pdf_path
    page_texts,      \* local page_texts (line 146)
    i,               \* loop index of enumerate(page_texts, 1)
    page_image,      \* local page_image of the current iteration
    translated_text, \* local translated_text of the current iteration
    exc,             \* message of the exception being handled / raised
    results,         \* local results (line 149), returned at line 188
    failure,         \* step whose exception left the run ("none" if none)
    store,           \* writes to the job-state store: job.meta saved by save_meta
    renderCalls,     \* calls of render_page_to_image, in order, with the error raised
    translateCalls,  \* calls of model.generate_content, in order, with the error raised
    progressCalls,   \* executions of lines 170-174, in order, with their outcome
    cancel_requested,\* TRUE once the worker harness has asked the run to stop
    other_written,   \* progress values a run for another job has written so far
    run_no,          \* 1 in the first call of the function, 2 in a repeated call
    first_run        \* what the first call returned and observed, once it is over

\* the run's own state and the collaborators it talks to
run_vars == <<job, pc, model_name, temp_dir, response, pdf_file, page_texts, i,
              page_image, translated_text, exc, results, failure,
              store, renderCalls, translateCalls, progressCalls>>

\* the surroundings of the run: the harness and a run for another job
env == <<cancel_requested, other_written, run_no, first_run>>

vars == <<run_vars, env>>

-----------------------------------------------------------------------------
(* Bounds *)

MaxPages == 3

\* pages of the document in the runs that are interleaved with another job
MaxPagesTwoJobs == 2

\* pages of the document in the runs that are repeated
MaxPagesRerun == 2

\* characters of all page texts together, and pages, of a document handed
\* to extract_text_from_pdf on its own
MaxTextLen == 4

MaxExtractPages == 2

-----------------------------------------------------------------------------
(* Inputs *)

None == <<>>

\* Raw per-page output of page.extract_text(): no text, whitespace only,
\* and text with leading, trailing and repeated inner whitespace.
RawPageTexts ==
    { <<>>, <<" ", "\n">>, <<" ", "a", " ", "\n", "b">> }

\* The bytes served at blobUrl: a readable PDF with its pages, or bytes that
\* PyPDF2 cannot read.
Documents ==
    { [wellformed |-> TRUE, pages |-> p] :
        p \in UNION { [1..n -> RawPageTexts] : n \in 0..MaxPages } }
    \cup { [wellformed |-> FALSE, pages |-> <<>>] }

NoDocument == [wellformed |-> FALSE, pages |-> <<>>]

\* no response received yet
NoResponse == [status |-> 0, content |-> NoDocument]

\* status codes of the response requests.get returns: success, a 3xx that
\* requests does not follow (300, or a redirect without Location), client
\* error, server error
StatusCodes == {200, 300, 404, 500}

RequiredFields == {"file", "blobUrl", "targetLanguage"}

\* Job records as they arrive from the queue: userTier may be "pro", another
\* value, or missing (read as "free"); the last record lacks a required field.
Jobs ==
    { [file |-> "doc.pdf", blobUrl |-> "url", targetLanguage |-> "French",
       userTier |-> "pro", jobId |-> "j1"],
      [file |-> "doc.pdf", blobUrl |-> "url", targetLanguage |-> "French",
       userTier |-> "premium", jobId |-> "j1"],
      [file |-> "doc.pdf", blobUrl |-> "url", targetLanguage |-> "French",
       jobId |-> "j1"],
      [file |-> "doc.pdf", blobUrl |-> "url", jobId |-> "j1"] }

-----------------------------------------------------------------------------
(* Pure helpers *)

\* str.isspace() of a character
IsSpace(c) == c \in {" ", "\n"}

\* str.strip() of a text
RECURSIVE LStrip(_)
LStrip(s) ==
    IF s # <<>> /\ IsSpace(Head(s)) THEN LStrip(Tail(s)) ELSE s

RECURSIVE RStrip(_)
RStrip(s) ==
    IF s # <<>> /\ IsSpace(s[Len(s)]) THEN RStrip(SubSeq(s, 1, Len(s) - 1)) ELSE s

Strip(s) == RStrip(LStrip(s))

\* the first whitespace-free run of a text
RECURSIVE FirstWord(_)
FirstWord(s) ==
    IF s = <<>> \/ IsSpace(Head(s)) THEN <<>> ELSE <<Head(s)>> \o FirstWord(Tail(s))

\* str.split(): the words of a text, separated by runs of whitespace
RECURSIVE Split(_)
Split(s) ==
    LET t == LStrip(s) IN
    IF t = <<>> THEN <<>>
    ELSE LET w == FirstWord(t) IN
         <<w>> \o Split(SubSeq(t, Len(w) + 1, Len(t)))

\* ' '.join(words)
RECURSIVE Join(_)
Join(words) ==
    IF words = <<>> THEN <<>>
    ELSE IF Len(words) = 1 THEN words[1]
    ELSE words[1] \o <<" ">> \o Join(Tail(words))

\* only the ends of the text stripped
NormalizePageText_StripOnly(text) == Strip(text)

\* lines 44-47: the text appended for one page
NormalizePageText(text) ==
    IF text # <<>> THEN Join(Split(text)) ELSE text

\* lines 37-52: extract_text_from_pdf on a readable document
extract_text_from_pdf(doc) ==
    [p \in DOMAIN doc |-> NormalizePageText(doc[p])]


\* dict.get(key, default)
Get(d, key, default) == IF key \in DOMAIN d THEN d[key] ELSE default

\* the premium resource selected by a tier name other than "pro"
ModelFor_Premium(user_tier) ==
    IF user_tier = "premium" THEN "gemini-2.0-flash" ELSE "gemini-1.5-flash-8b"

\* line 127: the translation resource for a user tier
ModelFor(user_tier) ==
    IF user_tier = "pro" THEN "gemini-2.0-flash" ELSE "gemini-1.5-flash-8b"

\* the job id kept in one module-level name that the latest job overwrites
job_id_Shared == IF other_written > 0 THEN "j2" ELSE Get(job, "jobId", "None")

\* line 124
job_id == Get(job, "jobId", "None")

\* line 84: the data URI of the rendered page
PageImage(page_number) == <<"data:image/png;base64,", ToString(page_number)>>

\* line 93
NoTextSentinel == <<"[No text to translate]">>

\* line 111: response.text of the backend for the prompt of line 96
Translation(text, target_lang, model) ==
    <<"<", model, ":", target_lang, ">">> \o text

\* line 92: not text.strip()
HasNoText_Never(text) == FALSE

HasNoText(text) == Strip(text) = <<>>

\* the two modes exchanged
Notes_Inverted(text, model) ==
    <<"Model: ", model, ". Mode: ",
      IF Strip(text) = <<>> THEN "Text+Image" ELSE "Image-Only", ".">>

\* line 165
Notes(text, model) ==
    <<"Model: ", model, ". Mode: ",
      IF Strip(text) = <<>> THEN "Image-Only" ELSE "Text+Image", ".">>

\* lines 160-166: the result of a page whose steps all succeeded
OkResult(page_number, text, translated, image, model) ==
    [page_number |-> page_number,
     original_text |-> text,
     translated_text |-> translated,
     page_image |-> image,
     notes |-> Notes(text, model)]

\* the handler keeping the image of the page
ErrorResult_KeepImage(page_number, text, e) ==
    [page_number |-> page_number,
     original_text |-> text,
     translated_text |-> <<"[Error: ">> \o e \o <<"]">>,
     page_image |-> PageImage(page_number),
     notes |-> <<"Error processing page: ">> \o e]

\* lines 179-185: the result of a page one of whose steps raised e
ErrorResult(page_number, text, e) ==
    [page_number |-> page_number,
     original_text |-> text,
     translated_text |-> <<"[Error: ">> \o e \o <<"]">>,
     page_image |-> None,
     notes |-> <<"Error processing page: ">> \o e]

\* the percentage rounded to the nearest integer instead of truncated
Progress_Rounded(page_number, total_pages) ==
    (page_number * 100 + total_pages \div 2) \div total_pages

\* line 170: int((i / total_pages) * 100).  The float quotient agrees with
\* the integer floor for every total_pages below 50.
Progress(page_number, total_pages) == (page_number * 100) \div total_pages

\* no earlier call of the function has ended
NoRun == [results |-> <<>>, response |-> NoResponse, renderCalls |-> <<>>,
          translateCalls |-> <<>>, progressCalls |-> <<>>, ended |-> FALSE]

-----------------------------------------------------------------------------
(* The run *)

Init ==
    /\ job \in Jobs
    /\ pc = "start"
    /\ model_name = "unset"
    /\ temp_dir = FALSE
    /\ response = NoResponse
    /\ pdf_file = NoDocument
    /\ page_texts = <<>>
    /\ i = 0
    /\ page_image = None
    /\ translated_text = None
    /\ exc = <<>>
    /\ results = <<>>
    /\ failure = "none"
    /\ store = <<>>
    /\ renderCalls = <<>>
    /\ translateCalls = <<>>
    /\ progressCalls = <<>>
    /\ cancel_requested = FALSE
    /\ other_written = 0
    /\ run_no = 1
    /\ first_run = NoRun


\* an exception that leaves the run without the directory being removed
Raise_Leak(step, e) ==
    /\ pc' = "failed"
    /\ failure' = step
    /\ exc' = e
    /\ UNCHANGED temp_dir

\* lines 190-192 (and the exit of the `with` block of line 132): an exception
\* raised outside the per-page try leaves the run
Raise(step, e) ==
    /\ pc' = "failed"
    /\ failure' = step
    /\ exc' = e
    /\ temp_dir' = FALSE

\* lines 119-129
ReadJob ==
    /\ pc = "start"
    /\ IF RequiredFields \subseteq DOMAIN job
       THEN /\ model_name' = ModelFor(Get(job, "userTier", "free"))
            /\ pc' = "tempdir"
            /\ UNCHANGED <<failure, exc, temp_dir>>
       ELSE /\ Raise("job", <<"KeyError">>)
            /\ UNCHANGED model_name
    /\ UNCHANGED <<job, response, pdf_file, page_texts, i, page_image,
                   translated_text, results, store, renderCalls, translateCalls,
                   progressCalls>>
    /\ UNCHANGED env

\* lines 132-133
CreateTempDir ==
    /\ pc = "tempdir"
    /\ \E ok \in BOOLEAN :
         IF ok
         THEN /\ temp_dir' = TRUE
              /\ pc' = "fetch"
              /\ UNCHANGED <<failure, exc>>
         ELSE Raise("tempdir", <<"OSError">>)
    /\ UNCHANGED <<job, model_name, response, pdf_file, page_texts, i, page_image,
                   translated_text, results, store, renderCalls, translateCalls,
                   progressCalls>>
    /\ UNCHANGED env

\* lines 136-138: requests.get and raise_for_status, which raises HTTPError
\* for a status in 400..599 and returns for every other status
FetchDocument ==
    /\ pc = "fetch"
    /\ \/ \E status \in StatusCodes, doc \in Documents :
            /\ status < 400 \/ doc = NoDocument
            /\ response' = [status |-> status, content |-> doc]
            /\ IF status >= 400
               THEN Raise("fetch", <<ToString(status), " Error">>)
               ELSE /\ pc' = "write"
                    /\ UNCHANGED <<failure, exc, temp_dir>>
       \/ /\ Raise("fetch", <<"ConnectionError">>)
          /\ UNCHANGED response
    /\ UNCHANGED <<job, model_name, pdf_file, page_texts, i, page_image,
                   translated_text, results, store, renderCalls, translateCalls,
                   progressCalls>>
    /\ UNCHANGED env

\* lines 140-142
WriteDocument ==
    /\ pc = "write"
    /\ \/ /\ pdf_file' = response.content
          /\ pc' = "extract"
          /\ UNCHANGED <<failure, exc, temp_dir>>
       \/ /\ Raise("write", <<"OSError">>)
          /\ UNCHANGED pdf_file
    /\ UNCHANGED <<job, model_name, response, page_texts, i, page_image,
                   translated_text, results, store, renderCalls, translateCalls,
                   progressCalls>>
    /\ UNCHANGED env

\* extraction that logs the error and returns the pages read so far
ExtractText_Swallow ==
    /\ pc = "extract"
    /\ page_texts' = IF pdf_file.wellformed
                     THEN extract_text_from_pdf(pdf_file.pages)
                     ELSE <<>>
    /\ pc' = "loop"
    /\ UNCHANGED <<job, model_name, temp_dir, response, pdf_file, i, page_image,
                   translated_text, exc, results, failure, store, renderCalls,
                   translateCalls, progressCalls>>
    /\ UNCHANGED env

\* lines 144-149 (extract_text_from_pdf, lines 37-52)
ExtractText ==
    /\ pc = "extract"
    /\ IF pdf_file.wellformed
       THEN /\ page_texts' = extract_text_from_pdf(pdf_file.pages)
            /\ pc' = "loop"
            /\ UNCHANGED <<failure, exc, temp_dir>>
       ELSE /\ Raise("parse", <<"PdfReadError">>)
            /\ UNCHANGED page_texts
    /\ UNCHANGED <<job, model_name, response, pdf_file, i, page_image,
                   translated_text, results, store, renderCalls, translateCalls,
                   progressCalls>>
    /\ UNCHANGED env

\* lines 150-151: the next item of enumerate(page_texts, 1)
NextPage ==
    /\ pc = "loop"
    /\ i < Len(page_texts)
    /\ i' = i + 1
    /\ pc' = "render"
    /\ UNCHANGED <<job, model_name, temp_dir, response, pdf_file, page_texts,
                   page_image, translated_text, exc, results, failure, store,
                   renderCalls, translateCalls,
                   progressCalls>>
    /\ UNCHANGED env


\* a failed rendering that lets the page go on to translation
RenderPage_ContinueOnError ==
    /\ pc = "render"
    /\ \/ /\ page_image' = PageImage(i)
          /\ renderCalls' = Append(renderCalls, [page |-> i, error |-> <<>>])
          /\ UNCHANGED exc
       \/ /\ \E e \in {<<"No image generated for page ", ToString(i)>>,
                       <<"PDFPageCountError">>} :
               /\ exc' = e
               /\ renderCalls' = Append(renderCalls, [page |-> i, error |-> e])
          /\ page_image' = None
    /\ pc' = "translate"
    /\ UNCHANGED <<job, model_name, temp_dir, response, pdf_file, page_texts, i,
                   translated_text, results, failure, store, translateCalls,
                   progressCalls>>
    /\ UNCHANGED env

\* line 155 (render_page_to_image, lines 54-87)
RenderPage ==
    /\ pc = "render"
    /\ \/ /\ page_image' = PageImage(i)
          /\ renderCalls' = Append(renderCalls, [page |-> i, error |-> <<>>])
          /\ pc' = "translate"
          /\ UNCHANGED exc
       \/ /\ \E e \in {<<"No image generated for page ", ToString(i)>>,
                       <<"PDFPageCountError">>} :
               /\ exc' = e
               /\ renderCalls' = Append(renderCalls, [page |-> i, error |-> e])
          /\ pc' = "except"
          /\ UNCHANGED page_image
    /\ UNCHANGED <<job, model_name, temp_dir, response, pdf_file, page_texts, i,
                   translated_text, results, failure, store, translateCalls,
                   progressCalls>>
    /\ UNCHANGED env

\* line 158 (translate_text, lines 89-114)
TranslateText ==
    /\ pc = "translate"
    /\ LET text == page_texts[i] IN
       IF HasNoText(text)
       THEN /\ translated_text' = NoTextSentinel
            /\ pc' = "append"
            /\ UNCHANGED <<exc, translateCalls>>
       ELSE LET call == [page |-> i, model |-> model_name, text |-> text] IN
            \/ /\ translated_text' =
                    Translation(text, job.targetLanguage, model_name)
               /\ translateCalls' =
                    Append(translateCalls, call @@ [error |-> <<>>])
               /\ pc' = "append"
               /\ UNCHANGED exc
            \/ /\ \E e \in {<<"Empty translation response">>,
                            <<"ResourceExhausted">>} :
                    /\ exc' = e
                    /\ translateCalls' =
                         Append(translateCalls, call @@ [error |-> e])
               /\ pc' = "except"
               /\ UNCHANGED translated_text
    /\ UNCHANGED <<job, model_name, temp_dir, response, pdf_file, page_texts, i,
                   page_image, results, failure, store, renderCalls, progressCalls>>
    /\ UNCHANGED env

\* the result appended without the image of the page
AppendResult_NoImage ==
    /\ pc = "append"
    /\ results' = Append(results,
                         OkResult(i, page_texts[i], translated_text, None,
                                  model_name))
    /\ pc' = "progress"
    /\ UNCHANGED <<job, model_name, temp_dir, response, pdf_file, page_texts, i,
                   page_image, translated_text, exc, failure, store,
                   renderCalls, translateCalls,
                   progressCalls>>
    /\ UNCHANGED env

\* lines 160-167
AppendResult ==
    /\ pc = "append"
    /\ results' = Append(results,
                         OkResult(i, page_texts[i], translated_text, page_image,
                                  model_name))
    /\ pc' = "progress"
    /\ UNCHANGED <<job, model_name, temp_dir, response, pdf_file, page_texts, i,
                   page_image, translated_text, exc, failure, store,
                   renderCalls, translateCalls,
                   progressCalls>>
    /\ UNCHANGED env

\* the progress update outside the per-page try: its errors leave the run
UpdateProgress_Unguarded ==
    /\ pc = "progress"
    /\ \/ /\ store' = Append(store,
                             [job_id |-> job_id,
                              progress |-> Progress(i, Len(page_texts))])
          /\ progressCalls' = Append(progressCalls, [page |-> i, error |-> <<>>])
          /\ pc' = "loop"
          /\ UNCHANGED <<exc, failure, temp_dir>>
       \/ /\ progressCalls' =
               Append(progressCalls, [page |-> i, error |-> <<"no job">>])
          /\ pc' = "loop"
          /\ UNCHANGED <<store, exc, failure, temp_dir>>
       \/ /\ LET e == <<"ConnectionError">> IN
               /\ Raise("progress", e)
               /\ progressCalls' = Append(progressCalls, [page |-> i, error |-> e])
          /\ UNCHANGED store
    /\ UNCHANGED <<job, model_name, response, pdf_file, page_texts, i,
                   page_image, translated_text, results,
                   renderCalls, translateCalls>>
    /\ UNCHANGED env

\* lines 169-174: the value is saved, or fetch_job finds no job, or fetch_job
\* or save_meta raises (nothing is saved in either case)
UpdateProgress ==
    /\ pc = "progress"
    /\ \/ /\ store' = Append(store,
                             [job_id |-> job_id,
                              progress |-> Progress(i, Len(page_texts))])
          /\ progressCalls' = Append(progressCalls, [page |-> i, error |-> <<>>])
          /\ pc' = "loop"
          /\ UNCHANGED exc
       \/ /\ progressCalls' =
               Append(progressCalls, [page |-> i, error |-> <<"no job">>])
          /\ pc' = "loop"
          /\ UNCHANGED <<store, exc>>
       \/ /\ LET e == <<"ConnectionError">> IN
               /\ exc' = e
               /\ progressCalls' = Append(progressCalls, [page |-> i, error |-> e])
          /\ pc' = "except"
          /\ UNCHANGED store
    /\ UNCHANGED <<job, model_name, temp_dir, response, pdf_file, page_texts, i,
                   page_image, translated_text, results, failure,
                   renderCalls, translateCalls>>
    /\ UNCHANGED env

\* the handler replacing the result the page already has
HandlePageError_Overwrite ==
    /\ pc = "except"
    /\ results' =
         IF results # <<>> /\ results[Len(results)].page_number = i
         THEN [results EXCEPT ![Len(results)] = ErrorResult(i, page_texts[i], exc)]
         ELSE Append(results, ErrorResult(i, page_texts[i], exc))
    /\ pc' = "loop"
    /\ UNCHANGED <<job, model_name, temp_dir, response, pdf_file, page_texts, i,
                   page_image, translated_text, exc, failure, store,
                   renderCalls, translateCalls, progressCalls>>
    /\ UNCHANGED env

\* the handler leaving the loop after recording the error
HandlePageError_Break ==
    /\ pc = "except"
    /\ results' = Append(results, ErrorResult(i, page_texts[i], exc))
    /\ pc' = "loop"
    /\ i' = Len(page_texts)
    /\ UNCHANGED <<job, model_name, temp_dir, response, pdf_file, page_texts,
                   page_image, translated_text, exc, failure, store,
                   renderCalls, translateCalls, progressCalls>>
    /\ UNCHANGED env

\* lines 176-185
HandlePageError ==
    /\ pc = "except"
    /\ results' = Append(results, ErrorResult(i, page_texts[i], exc))
    /\ pc' = "loop"
    /\ UNCHANGED <<job, model_name, temp_dir, response, pdf_file, page_texts, i,
                   page_image, translated_text, exc, failure, store,
                   renderCalls, translateCalls,
                   progressCalls>>
    /\ UNCHANGED env

\* lines 187-188, and the exit of the `with` block
ReturnResults ==
    /\ pc = "loop"
    /\ i = Len(page_texts)
    /\ pc' = "done"
    /\ temp_dir' = FALSE
    /\ UNCHANGED <<job, model_name, response, pdf_file, page_texts, i,
                   page_image, translated_text, exc, results, failure, store,
                   renderCalls, translateCalls,
                   progressCalls>>
    /\ UNCHANGED env

Next ==
    \/ ReadJob
    \/ CreateTempDir
    \/ FetchDocument
    \/ WriteDocument
    \/ ExtractText
    \/ NextPage
    \/ RenderPage
    \/ TranslateText
    \/ AppendResult
    \/ UpdateProgress
    \/ HandlePageError
    \/ ReturnResults

Spec == Init /\ [][Next]_vars

-----------------------------------------------------------------------------
(* The run with a harness that may ask it to stop *)

\* positions of the run inside the page loop
InPageLoop == {"loop", "render", "translate", "append", "progress", "except"}

\* the worker harness (lines 197-200) asks the running job to stop; the
\* function has no statement that reads the request
RequestCancel ==
    /\ pc \in InPageLoop
    /\ ~cancel_requested
    /\ cancel_requested' = TRUE
    /\ UNCHANGED <<run_vars, other_written, run_no, first_run>>

NextCancel ==
    \/ Next
    \/ RequestCancel

SpecCancel == Init /\ [][NextCancel]_vars

-----------------------------------------------------------------------------
(* The run interleaved with a run for another job *)

\* lines 169-174 as executed by a run for job "j2" over a two-page document:
\* the only state the two runs have in common is the job-state store
OtherJobWrites == [k \in 1..2 |-> [job_id |-> "j2", progress |-> Progress(k, 2)]]

OtherJobProgress ==
    /\ other_written < Len(OtherJobWrites)
    /\ other_written' = other_written + 1
    /\ store' = Append(store, OtherJobWrites[other_written + 1])
    /\ UNCHANGED <<job, pc, model_name, temp_dir, response, pdf_file, page_texts,
                   i, page_image, translated_text, exc, results, failure,
                   renderCalls, translateCalls, progressCalls>>
    /\ UNCHANGED <<cancel_requested, run_no, first_run>>

\* a step of this run, on a document of at most MaxPagesTwoJobs pages
OwnJobStep ==
    /\ Next
    /\ Len(response'.content.pages) <= MaxPagesTwoJobs

NextTwoJobs ==
    \/ OwnJobStep
    \/ OtherJobProgress

SpecTwoJobs == Init /\ [][NextTwoJobs]_vars

-----------------------------------------------------------------------------
(* The run repeated on the same job with collaborators that answer alike *)

IsPrefix(s, t) == Len(s) <= Len(t) /\ s = SubSeq(t, 1, Len(s))

\* a second call that keeps appending to the list of the first call
StartSecondRun_KeepResults ==
    /\ pc = "done"
    /\ run_no = 1
    /\ run_no' = 2
    /\ first_run' = [results |-> results, response |-> response,
                     renderCalls |-> renderCalls,
                     translateCalls |-> translateCalls,
                     progressCalls |-> progressCalls, ended |-> TRUE]
    /\ pc' = "start"
    /\ model_name' = "unset"
    /\ response' = NoResponse
    /\ pdf_file' = NoDocument
    /\ page_texts' = <<>>
    /\ i' = 0
    /\ page_image' = None
    /\ translated_text' = None
    /\ exc' = <<>>
    /\ renderCalls' = <<>>
    /\ translateCalls' = <<>>
    /\ progressCalls' = <<>>
    /\ UNCHANGED <<job, temp_dir, failure, store, results, cancel_requested,
                   other_written>>

\* lines 116-118 and 149: the function is called again with the same
\* job_data; every local name, results included, is created anew, and the
\* job-state store keeps what the first call saved
StartSecondRun ==
    /\ pc = "done"
    /\ run_no = 1
    /\ run_no' = 2
    /\ first_run' = [results |-> results, response |-> response,
                     renderCalls |-> renderCalls,
                     translateCalls |-> translateCalls,
                     progressCalls |-> progressCalls, ended |-> TRUE]
    /\ pc' = "start"
    /\ model_name' = "unset"
    /\ response' = NoResponse
    /\ pdf_file' = NoDocument
    /\ page_texts' = <<>>
    /\ i' = 0
    /\ page_image' = None
    /\ translated_text' = None
    /\ exc' = <<>>
    /\ results' = <<>>
    /\ renderCalls' = <<>>
    /\ translateCalls' = <<>>
    /\ progressCalls' = <<>>
    /\ UNCHANGED <<job, temp_dir, failure, store, cancel_requested,
                   other_written>>

\* the collaborators have answered the calls of this run as they answered
\* the same calls of the first run: same bytes served, same outcome of every
\* rasterization, translation and progress update
SameAnswers ==
    /\ pc # "failed"
    /\ response \in {NoResponse, first_run.response}
    /\ IsPrefix(renderCalls, first_run.renderCalls)
    /\ IsPrefix(translateCalls, first_run.translateCalls)
    /\ IsPrefix(progressCalls, first_run.progressCalls)

FirstRunStep ==
    /\ run_no = 1
    /\ Next
    /\ Len(response'.content.pages) <= MaxPagesRerun

SecondRunStep ==
    /\ run_no = 2
    /\ Next
    /\ SameAnswers'

NextRerun ==
    \/ FirstRunStep
    \/ StartSecondRun
    \/ SecondRunStep

SpecRerun == Init /\ [][NextRerun]_vars

-----------------------------------------------------------------------------
(* extract_text_from_pdf on its own *)

Chars == {"a", " ", "\n"}

\* what page.extract_text() may return for a page, up to a length
ExtractableTexts(len) == UNION { [1..n -> Chars] : n \in 0..len }

\* the page lists of n pages whose texts have len characters at most together
RECURSIVE PageLists(_, _)
PageLists(n, len) ==
    IF n = 0 THEN { <<>> }
    ELSE UNION { { <<t>> \o rest : rest \in PageLists(n - 1, len - Len(t)) } :
                 t \in ExtractableTexts(len) }

\* the files extract_text_from_pdf may be handed
ExtractDocuments ==
    { [wellformed |-> TRUE, pages |-> p] :
        p \in UNION { PageLists(n, MaxTextLen) : n \in 0..MaxExtractPages } }
    \cup { NoDocument }

\* the run stands at line 146 with the file written
InitExtract ==
    /\ job = [file |-> "doc.pdf", blobUrl |-> "url", targetLanguage |-> "French",
              jobId |-> "j1"]
    /\ pc = "extract"
    /\ model_name = ModelFor("free")
    /\ temp_dir = TRUE
    /\ pdf_file \in ExtractDocuments
    /\ response = [status |-> 200, content |-> pdf_file]
    /\ page_texts = <<>>
    /\ i = 0
    /\ page_image = None
    /\ translated_text = None
    /\ exc = <<>>
    /\ results = <<>>
    /\ failure = "none"
    /\ store = <<>>
    /\ renderCalls = <<>>
    /\ translateCalls = <<>>
    /\ progressCalls = <<>>
    /\ cancel_requested = FALSE
    /\ other_written = 0
    /\ run_no = 1
    /\ first_run = NoRun

SpecExtract == InitExtract /\ [][ExtractText]_vars

-----------------------------------------------------------------------------
(* Vocabulary of the properties *)

NumPages == Len(page_texts)

\* positions of the results that carry page number k
IndicesOf(k) == { n \in DOMAIN results : results[n].page_number = k }

FirstIndexOf(k) == CHOOSE n \in IndicesOf(k) : \A m \in IndicesOf(k) : n <= m

RenderFailed(k) ==
    \E n \in DOMAIN renderCalls :
        renderCalls[n].page = k /\ renderCalls[n].error # <<>>

RenderSucceeded(k) ==
    \E n \in DOMAIN renderCalls :
        renderCalls[n].page = k /\ renderCalls[n].error = <<>>

TranslateSucceeded(k) ==
    \E n \in DOMAIN translateCalls :
        translateCalls[n].page = k /\ translateCalls[n].error = <<>>

\* the progress step of page k ended without raising
ProgressPassed(k) ==
    \E n \in DOMAIN progressCalls :
        progressCalls[n].page = k /\ progressCalls[n].error \in {<<>>, <<"no job">>}

IsBlank(text) == \A n \in DOMAIN text : text[n] = " "

\* every step of page k succeeded
OwnStepsSucceeded(k) ==
    /\ RenderSucceeded(k)
    /\ IsBlank(page_texts[k]) \/ TranslateSucceeded(k)
    /\ ProgressPassed(k)

IsErrorMarker(t) == Len(t) >= 2 /\ t[1] = "[Error: " /\ t[Len(t)] = "]"

\* the error logged for page k in a call log (<<>> when the call succeeded)
ErrorFor(log, k) ==
    LET n == CHOOSE n \in DOMAIN log : log[n].page = k IN log[n].error

Called(log, k) == \E n \in DOMAIN log : log[n].page = k

\* the results a run alone records for page k, given what the page's own
\* calls answered
ResultsAlone(k) ==
    LET text == page_texts[k] IN
    IF ErrorFor(renderCalls, k) # <<>>
    THEN <<ErrorResult(k, text, ErrorFor(renderCalls, k))>>
    ELSE IF ~IsBlank(text) /\ ErrorFor(translateCalls, k) # <<>>
    THEN <<ErrorResult(k, text, ErrorFor(translateCalls, k))>>
    ELSE <<OkResult(k, text,
                    IF IsBlank(text) THEN NoTextSentinel
                    ELSE Translation(text, job.targetLanguage, model_name),
                    PageImage(k), model_name)>>
         \o (IF ErrorFor(progressCalls, k) \notin {<<>>, <<"no job">>}
             THEN <<ErrorResult(k, text, ErrorFor(progressCalls, k))>>
             ELSE <<>>)

RECURSIVE ResultsAloneUpTo(_)
ResultsAloneUpTo(k) ==
    IF k = 0 THEN <<>> ELSE ResultsAloneUpTo(k - 1) \o ResultsAlone(k)

IsOwnWrite(w) == w.job_id = "j1"

IsOtherWrite(w) == w.job_id = "j2"

Saved(c) == c.error = <<>>

NothingProduced ==
    /\ results = <<>>
    /\ renderCalls = <<>>
    /\ translateCalls = <<>>
    /\ progressCalls = <<>>
    /\ store = <<>>

-----------------------------------------------------------------------------
(* Properties *)

\* C1: a run over a document of N pages returns exactly N results whose
\* page numbers are 1..N in order, whatever the outcomes of rasterization,
\* translation and the progress-store update.
C1_OneResultPerPageInOrder ==
    pc = "done" =>
        /\ Len(results) = NumPages
        /\ \A k \in DOMAIN results : results[k].page_number = k

\* C2: in every run that returns for a document of at least one page, the
\* progress values written are non-decreasing and the last one is 100.
C2_ProgressMonotoneEndsAt100 ==
    (pc = "done" /\ NumPages >= 1) =>
        /\ \A a, b \in DOMAIN store :
               a <= b => store[a].progress <= store[b].progress
        /\ store # <<>>
        /\ store[Len(store)].progress = 100

C4_TranslationFailureContained ==
    \A c \in DOMAIN translateCalls :
        LET k == translateCalls[c].page
            e == translateCalls[c].error
        IN  e # <<>> =>
              /\ pc # "failed"
              /\ RenderSucceeded(k)
              /\ pc = "done" =>
                   /\ Cardinality(IndicesOf(k)) = 1
                   /\ \A n \in IndicesOf(k) :
                          /\ results[n].original_text = page_texts[k]
                          /\ results[n].translated_text = <<"[Error: ">> \o e \o <<"]">>
                          /\ results[n].page_image = <<>>
                   /\ k < NumPages =>
                        \E n \in DOMAIN renderCalls : renderCalls[n].page = k + 1

C4_Witness ==
    /\ pc = "done"
    /\ \E c \in DOMAIN translateCalls :
          /\ translateCalls[c].error = <<"Empty translation response">>
          /\ translateCalls[c].page < NumPages

\* C5 as stated: a page whose text is empty or whitespace-only makes no
\* backend call and its translated_text in the returned results is the
\* sentinel.
C5_BlankPageAlwaysSentinel ==
    \A k \in 1..NumPages :
        IsBlank(page_texts[k]) =>
            /\ \A c \in DOMAIN translateCalls : translateCalls[c].page # k
            /\ pc = "done" =>
                 \A n \in IndicesOf(k) :
                     results[n].translated_text = <<"[No text to translate]">>

\* C5 as amended: such a page makes no backend call; when its rasterization
\* succeeds the first result of the page carries the sentinel, and when its
\* rasterization fails its only result carries the error marker.
C5_BlankPageSkipsBackend ==
    \A k \in 1..NumPages :
        IsBlank(page_texts[k]) =>
            /\ \A c \in DOMAIN translateCalls : translateCalls[c].page # k
            /\ (pc = "done" /\ RenderSucceeded(k)) =>
                 /\ IndicesOf(k) # {}
                 /\ results[FirstIndexOf(k)].translated_text =
                      <<"[No text to translate]">>
            /\ (pc = "done" /\ RenderFailed(k)) =>
                 /\ Cardinality(IndicesOf(k)) = 1
                 /\ \A n \in IndicesOf(k) :
                        IsErrorMarker(results[n].translated_text)

C5_Witness ==
    /\ pc = "done"
    /\ \E k \in 1..NumPages :
          /\ IsBlank(page_texts[k])
          /\ RenderSucceeded(k)
          /\ ProgressPassed(k)
    /\ \E k \in 1..NumPages : IsBlank(page_texts[k]) /\ RenderFailed(k)

\* the steps of the run that precede the page loop
BeforeLoop == {"start", "tempdir", "fetch", "write", "extract"}

\* C6 as stated: no failure of the rasterizer, the translator or the progress
\* update escapes the run, and the run ends with an error only through a
\* fetch failure or a parse failure.
C6_OnlyFetchOrParseEscape ==
    pc = "failed" =>
        /\ failure \in {"fetch", "parse"}
        /\ renderCalls = <<>> /\ translateCalls = <<>> /\ progressCalls = <<>>

\* C6 as amended: no failure of the rasterizer, the translator or the
\* progress update escapes the run: the run ends with an error only through
\* a step that precedes the page loop (reading the job record, creating the
\* temporary directory, fetching, storing or parsing the document), and in
\* the page loop the run can always take its next step.
C6_PageFailuresNeverEscape ==
    /\ pc = "failed" =>
         /\ failure \in {"job", "tempdir", "fetch", "write", "parse"}
         /\ renderCalls = <<>> /\ translateCalls = <<>> /\ progressCalls = <<>>
    /\ pc \notin BeforeLoop \cup {"failed", "done"} =>
         /\ failure = "none"
         /\ ENABLED Next

C6_Witness ==
    /\ pc = "done"
    /\ \E n \in DOMAIN renderCalls : renderCalls[n].error # <<>>
    /\ \E n \in DOMAIN translateCalls : translateCalls[n].error # <<>>
    /\ \E n \in DOMAIN progressCalls :
          progressCalls[n].error \notin {<<>>, <<"no job">>}

C8_ModelChosenByTierOnce ==
    LET chosen == IF "userTier" \in DOMAIN job /\ job.userTier = "pro"
                  THEN "gemini-2.0-flash"
                  ELSE "gemini-1.5-flash-8b"
    IN  /\ \A c \in DOMAIN translateCalls : translateCalls[c].model = chosen
        /\ pc \notin {"start", "failed"} => model_name = chosen

C8_Witness ==
    /\ pc = "done"
    /\ "userTier" \in DOMAIN job
    /\ job.userTier = "premium"
    /\ Len(translateCalls) >= 2

\* C9: progress is written exactly once per completed page, ok or error, and
\* the c-th value written is floor(c / N * 100).
C9_ProgressOncePerCompletedPage ==
    pc = "done" =>
        /\ Len(store) = NumPages
        /\ \A c \in DOMAIN store : store[c].progress = (c * 100) \div NumPages

\* C10: a progress step for page i runs only when a result of page i is in
\* the result sequence; the last value written never exceeds
\* floor(len(results) / N * 100), and 100 is written only when the result
\* sequence holds a result of the last page.
C10_ProgressAfterAppend ==
    /\ \A c \in DOMAIN progressCalls : IndicesOf(progressCalls[c].page) # {}
    /\ store # <<>> =>
         /\ store[Len(store)].progress <= (Len(results) * 100) \div NumPages
         /\ \A w \in DOMAIN store :
                store[w].progress = 100 => IndicesOf(NumPages) # {}

C10_Witness ==
    /\ pc = "loop"
    /\ NumPages >= 2
    /\ Len(store) = NumPages
    /\ store[Len(store)].progress = 100

\* C11: once the harness has requested cancellation during page processing,
\* the run starts no further page, and when it ends the temporary document
\* storage is released.
C11_CancelObservedBetweenPages ==
    [][cancel_requested =>
         /\ i' = i
         /\ pc' \in {"done", "failed"} => ~temp_dir']_vars

C14_ResultsAppendOnly ==
    [][/\ job' = job
       /\ \/ results' = results
          \/ /\ Len(results') = Len(results) + 1
             /\ SubSeq(results', 1, Len(results)) = results]_vars

C14_Witness ==
    /\ pc = "done"
    /\ Len(results) >= 3
    /\ results[1].page_number = results[2].page_number

\* the notes that name the model chosen for the job and the mode of a text
NotesOfModeAndModel(text) ==
    <<"Model: ",
      IF "userTier" \in DOMAIN job /\ job.userTier = "pro"
      THEN "gemini-2.0-flash" ELSE "gemini-1.5-flash-8b",
      ". Mode: ",
      IF IsBlank(text) THEN "Image-Only" ELSE "Text+Image",
      ".">>

\* C15 as stated: the notes of every page result record the processing mode,
\* image-only exactly for an empty or whitespace-only text, and the
\* translation resource selected for the job.
C15_EveryNotesRecordsModeAndModel ==
    \A n \in DOMAIN results :
        results[n].notes = NotesOfModeAndModel(results[n].original_text)

\* C15 as amended: the notes of every page result that is not an error result
\* record the mode and the resource as stated; the notes of an error result
\* are "Error processing page: " followed by the failure message and record
\* neither.
C15_OkNotesRecordModeAndModel ==
    \A n \in DOMAIN results :
        LET r == results[n] IN
        IF r.page_image # <<>>
        THEN r.notes = NotesOfModeAndModel(r.original_text)
        ELSE /\ r.notes[1] = "Error processing page: "
             /\ Len(r.notes) >= 2
             /\ r.translated_text = <<"[Error: ">> \o Tail(r.notes) \o <<"]">>
             /\ \A m \in DOMAIN r.notes :
                    r.notes[m] \notin {"Model: ", "Image-Only", "Text+Image",
                                       "gemini-2.0-flash", "gemini-1.5-flash-8b"}

C15_Witness ==
    /\ pc = "done"
    /\ \E n \in DOMAIN results :
          results[n].page_image # <<>> /\ IsBlank(results[n].original_text)
    /\ \E n \in DOMAIN results :
          results[n].page_image # <<>> /\ ~IsBlank(results[n].original_text)
    /\ \E n \in DOMAIN results : results[n].page_image = <<>>

\* positions of a raw text that the normalized text keeps: every character
\* that is not whitespace, and the first whitespace character of a run that
\* stands between two words
KeptPositions(raw) ==
    { n \in DOMAIN raw :
        \/ raw[n] \notin {" ", "\n"}
        \/ /\ n > 1
           /\ raw[n - 1] \notin {" ", "\n"}
           /\ \E m \in (n + 1)..Len(raw) : raw[m] \notin {" ", "\n"} }

\* the kept characters from position n on, whitespace written as one space
RECURSIVE CollapsedFrom(_, _)
CollapsedFrom(raw, n) ==
    IF n > Len(raw) THEN <<>>
    ELSE (IF n \in KeptPositions(raw)
          THEN <<IF raw[n] \in {" ", "\n"} THEN " " ELSE raw[n]>>
          ELSE <<>>)
         \o CollapsedFrom(raw, n + 1)

\* C16: extract_text_from_pdf returns one entry per page, in document order;
\* a page without text yields the empty text and no error; every entry is
\* the page's text with each whitespace run collapsed to one space and no
\* whitespace at either end, so a whitespace-only page yields the empty text.
C16_ExtractNormalizesEachPage ==
    /\ (pdf_file.wellformed /\ pc # "extract") => pc = "loop"
    /\ pc = "loop" =>
         /\ Len(page_texts) = Len(pdf_file.pages)
         /\ \A p \in DOMAIN page_texts :
                LET raw == pdf_file.pages[p]
                    out == page_texts[p]
                IN  /\ out = CollapsedFrom(raw, 1)
                    /\ \A n \in DOMAIN out : out[n] # "\n"
                    /\ out # <<>> => out[1] # " " /\ out[Len(out)] # " "
                    /\ \A n \in 1..(Len(out) - 1) :
                           ~(out[n] = " " /\ out[n + 1] = " ")
                    /\ (\A n \in DOMAIN raw : raw[n] \in {" ", "\n"}) => out = <<>>

C16_Witness ==
    /\ pc = "loop"
    /\ Len(page_texts) = 2
    /\ pdf_file.pages[1] = <<>>
    /\ page_texts[1] = <<>>
    /\ pdf_file.pages[2] = <<"a", " ", "\n", "a">>
    /\ page_texts[2] = <<"a", " ", "a">>

\* a result written by the handler of lines 176-185
IsErrorResult(r) ==
    /\ IsErrorMarker(r.translated_text)
    /\ r.notes # <<>>
    /\ r.notes[1] = "Error processing page: "

\* C17: a result has no page image exactly when it is an error result
\* ("[Error: ...]" as translated_text, notes starting with "Error processing
\* page"); every other result carries the image of its page and, as
\* translated_text, the backend's output for the page's text or the
\* sentinel "[No text to translate]".
C17_ImageAbsentExactlyOnError ==
    \A n \in DOMAIN results :
        LET r == results[n] IN
        /\ (r.page_image = None) <=> IsErrorResult(r)
        /\ IsErrorMarker(r.translated_text) <=>
               (r.notes # <<>> /\ r.notes[1] = "Error processing page: ")
        /\ ~IsErrorResult(r) =>
              /\ r.page_image = PageImage(r.page_number)
              /\ r.translated_text \in
                    { NoTextSentinel,
                      Translation(r.original_text, job.targetLanguage,
                                  model_name) }

C17_Witness ==
    /\ pc = "done"
    /\ \E n \in DOMAIN results :
          results[n].page_image = None /\ IsErrorResult(results[n])
    /\ \E n \in DOMAIN results :
          /\ results[n].page_image # None
          /\ results[n].translated_text = NoTextSentinel
    /\ \E n \in DOMAIN results :
          /\ results[n].page_image # None
          /\ results[n].translated_text =
                Translation(results[n].original_text, job.targetLanguage,
                            model_name)

\* C18: pages are processed one at a time in index order: the k-th
\* rasterization is that of page k, so each page is rasterized once, and a
\* page is rasterized only when every earlier page has its result; the
\* backend is asked at most once per page, only after the page's
\* rasterization, and never for a page whose rasterization failed.
C18_PagesInOrderRenderBeforeTranslate ==
    /\ \A n \in DOMAIN renderCalls : renderCalls[n].page = n
    /\ Len(renderCalls) = (IF pc = "render" THEN i - 1 ELSE i)
    /\ pc = "done" => Len(renderCalls) = NumPages
    /\ \A n \in DOMAIN renderCalls :
          n < Len(renderCalls) => IndicesOf(n) # {}
    /\ \A n, m \in DOMAIN translateCalls :
          n < m => translateCalls[n].page < translateCalls[m].page
    /\ \A n \in DOMAIN translateCalls :
          LET k == translateCalls[n].page IN
          /\ k \in DOMAIN renderCalls
          /\ renderCalls[k].error = <<>>
          /\ k < Len(renderCalls) => IndicesOf(k) # {}

C18_Witness ==
    /\ pc = "done"
    /\ NumPages = 3
    /\ RenderFailed(2) /\ ~Called(translateCalls, 2)
    /\ Called(translateCalls, 1) /\ Called(translateCalls, 3)

\* C19: the temporary directory exists from the download on and during the
\* whole page loop, so whenever a page is rasterized; it is gone once the
\* run has ended, whether by the normal return or by a failure of the job
\* fields, the directory creation, the fetch, the write or the parse.
C19_TempDirHeldThenReleased ==
    /\ pc \in {"fetch", "write", "extract"} \cup InPageLoop => temp_dir
    /\ pc \in {"done", "failed"} => ~temp_dir
    /\ pc = "failed" => failure \in {"job", "tempdir", "fetch", "write", "parse"}
    /\ pc = "done" => failure = "none"

C19_Witness ==
    /\ pc = "done"
    /\ Len(renderCalls) = NumPages
    /\ NumPages >= 1
    /\ ~temp_dir

====
